---- MODULE Spec2Model ----
(***************************************************************************)
(* A model of ceddi's expression language: the tokenizer, the              *)
(* shunting-yard converter and the RPN evaluator of                        *)
(* ceddi/expression_parser.py, and the note extraction engine with its     *)
(* per-line cache of ceddi/note_parser.py.                                 *)
(*                                                                         *)
(* Strings are sequences of one-character strings.  A float magnitude is   *)
(* an exact rational <<"rat", n, d>> (d > 0, lowest terms) while numerator *)
(* and denominator stay within MagCap, and otherwise a symbolic term       *)
(* <<"sym", op, <<a, b>>>> that is equal only to itself.  A raised Python  *)
(* exception is <<"exc", kind>>.                                           *)
(***************************************************************************)
EXTENDS Integers, Sequences, FiniteSets, TLC

VARIABLES cache, cache_hits, cache_misses, line, history, expr, env, outcome

vars == <<cache, cache_hits, cache_misses, line, history, expr, env, outcome>>

(***************************************************************************)
(* Bounds of the model.                                                    *)
(***************************************************************************)
MagCap == 10000

(***************************************************************************)
(* Characters.                                                             *)
(***************************************************************************)
Digits == {"0", "1", "2", "3", "4", "5", "6", "7", "8", "9"}

LowerCase ==
  {"a", "b", "c", "d", "e", "f", "g", "h", "i", "j", "k", "l", "m",
   "n", "o", "p", "q", "r", "s", "t", "u", "v", "w", "x", "y", "z"}

UpperCase ==
  {"A", "B", "C", "D", "E", "F", "G", "H", "I", "J", "K", "L", "M",
   "N", "O", "P", "Q", "R", "S", "T", "U", "V", "W", "X", "Y", "Z"}

WordStart == LowerCase \cup UpperCase \cup {"_"}

WordChar == WordStart \cup Digits

IsSpace(c) == c \in {" ", "\t", "\n"}

DigitVal(c) ==
  CASE c = "0" -> 0 [] c = "1" -> 1 [] c = "2" -> 2 [] c = "3" -> 3
    [] c = "4" -> 4 [] c = "5" -> 5 [] c = "6" -> 6 [] c = "7" -> 7
    [] c = "8" -> 8 [] c = "9" -> 9

Drop(s, n) == IF n >= Len(s) THEN <<>> ELSE SubSeq(s, n + 1, Len(s))

Take(s, n) == IF n <= 0 THEN <<>> ELSE SubSeq(s, 1, IF n > Len(s) THEN Len(s) ELSE n)

StartsWith(s, p) == Len(p) <= Len(s) /\ SubSeq(s, 1, Len(p)) = p

EndsWith(s, p) == Len(p) <= Len(s) /\ SubSeq(s, Len(s) - Len(p) + 1, Len(s)) = p

\* The length of the longest prefix of s made of characters of the class cls.
RECURSIVE Span(_, _)
Span(s, cls) ==
  IF s = <<>> \/ Head(s) \notin cls THEN 0 ELSE 1 + Span(Tail(s), cls)

(***************************************************************************)
(* Exceptions and magnitudes.                                              *)
(***************************************************************************)
Exc(kind) == <<"exc", kind>>

IsExc(v) == v[1] = "exc"

Abs(i) == IF i < 0 THEN -i ELSE i

RECURSIVE GCD(_, _)
GCD(a, b) == IF b = 0 THEN a ELSE GCD(b, a % b)

Sym(op, a, b) == <<"sym", op, <<a, b>>>>

IsRat(m) == m[1] = "rat"

\* The rational n/d (d # 0) in lowest terms, or the symbolic term alt when it
\* leaves the exactly represented range.
Rat(n, d, alt) ==
  LET g == GCD(Abs(n), Abs(d))
      s == IF d < 0 THEN -1 ELSE 1
      nn == s * (n \div g)
      dd == s * (d \div g)
  IN IF Abs(nn) > MagCap \/ dd > MagCap THEN alt ELSE <<"rat", nn, dd>>

Zero == <<"rat", 0, 1>>

One == <<"rat", 1, 1>>

IsInt(m) == IsRat(m) /\ m[3] = 1

MagAdd(a, b) ==
  IF IsRat(a) /\ IsRat(b)
  THEN Rat(a[2] * b[3] + b[2] * a[3], a[3] * b[3], Sym("+", a, b))
  ELSE IF b = Zero THEN a ELSE IF a = Zero THEN b ELSE Sym("+", a, b)

MagSub(a, b) ==
  IF IsRat(a) /\ IsRat(b)
  THEN Rat(a[2] * b[3] - b[2] * a[3], a[3] * b[3], Sym("-", a, b))
  ELSE IF a = b THEN Zero ELSE IF b = Zero THEN a ELSE Sym("-", a, b)

MagMul(a, b) ==
  IF IsRat(a) /\ IsRat(b)
  THEN Rat(a[2] * b[2], a[3] * b[3], Sym("*", a, b))
  ELSE IF b = One THEN a ELSE IF a = One THEN b ELSE Sym("*", a, b)

\* float / float: a zero divisor raises ZeroDivisionError.
MagDiv(a, b) ==
  IF b = Zero THEN Exc("ZeroDivisionError")
  ELSE IF IsRat(a) /\ IsRat(b)
  THEN Rat(a[2] * b[3], a[3] * b[2], Sym("/", a, b))
  ELSE IF a = b THEN One ELSE IF b = One THEN a ELSE Sym("/", a, b)

\* b^e for a natural e, stopping once the exact range is left.
RECURSIVE PowAcc(_, _, _)
PowAcc(b, e, acc) ==
  IF e = 0 \/ Abs(acc) > MagCap THEN acc ELSE PowAcc(b, e - 1, acc * b)

IntPow(b, e) ==
  IF b = 0 THEN (IF e = 0 THEN 1 ELSE 0)
  ELSE IF b = 1 THEN 1
  ELSE IF b = -1 THEN (IF e % 2 = 0 THEN 1 ELSE -1)
  ELSE PowAcc(b, e, 1)

\* float ** float: 0.0 to a negative power raises ZeroDivisionError; a
\* non-integral power of a number other than 0 and 1 is kept symbolic.
MagPow(a, b) ==
  IF b = Zero THEN One
  ELSE IF a = One THEN One
  ELSE IF b = One THEN a
  ELSE IF IsRat(a) /\ IsRat(b)
  THEN IF a = Zero
       THEN (IF b[2] < 0 THEN Exc("ZeroDivisionError") ELSE Zero)
       ELSE IF b[3] # 1 THEN Sym("^", a, b)
       ELSE LET e == Abs(b[2])
                pn == IntPow(a[2], e)
                pd == IntPow(a[3], e)
            IN IF Abs(pn) > MagCap \/ pd > MagCap THEN Sym("^", a, b)
               ELSE IF b[2] > 0 THEN Rat(pn, pd, Sym("^", a, b))
               ELSE Rat(pd, pn, Sym("^", a, b))
  ELSE Sym("^", a, b)

(***************************************************************************)
(* Quantities: the part of pint's registry the parser uses.  A unit is a   *)
(* map from unit names to exponents; a Quantity is <<"q", magnitude,       *)
(* units>>.                                                                *)
(***************************************************************************)
UNIT_TABLE ==
  << [word |-> <<"m">>, id |-> "m", dim |-> "length", scale |-> One],
     [word |-> <<"c", "m">>, id |-> "cm", dim |-> "length", scale |-> <<"rat", 1, 100>>],
     [word |-> <<"k", "g">>, id |-> "kg", dim |-> "mass", scale |-> One],
     [word |-> <<"g">>, id |-> "g", dim |-> "mass", scale |-> <<"rat", 1, 1000>>] >>

UnitIds == {UNIT_TABLE[i].id : i \in DOMAIN UNIT_TABLE}

Dims == {UNIT_TABLE[i].dim : i \in DOMAIN UNIT_TABLE}

UnitEntry(id) == UNIT_TABLE[CHOOSE i \in DOMAIN UNIT_TABLE : UNIT_TABLE[i].id = id]

IsUnitWord(w) == \E i \in DOMAIN UNIT_TABLE : UNIT_TABLE[i].word = w

\* registry.Unit(word)
UnitOfWord(w) ==
  LET e == UNIT_TABLE[CHOOSE i \in DOMAIN UNIT_TABLE : UNIT_TABLE[i].word = w]
  IN [u \in UnitIds |-> IF u = e.id THEN One ELSE Zero]

NoUnits == [u \in UnitIds |-> Zero]

Quantity(mag, units) == <<"q", mag, units>>

Magnitude(q) == q[2]

Units(q) == q[3]

RECURSIVE SumExp(_, _, _)
SumExp(units, d, i) ==
  IF i > Len(UNIT_TABLE) THEN Zero
  ELSE IF UNIT_TABLE[i].dim = d
  THEN MagAdd(units[UNIT_TABLE[i].id], SumExp(units, d, i + 1))
  ELSE SumExp(units, d, i + 1)

Dimensionality(units) == [d \in Dims |-> SumExp(units, d, 1)]

Dimensionless(q) == \A d \in Dims : Dimensionality(Units(q))[d] = Zero

\* The factor that takes a magnitude in these units to root units.
RECURSIVE RootFactor(_, _)
RootFactor(units, i) ==
  IF i > Len(UNIT_TABLE) THEN One
  ELSE MagMul(MagPow(UNIT_TABLE[i].scale, units[UNIT_TABLE[i].id]),
              RootFactor(units, i + 1))

\* The magnitude of q expressed in the units target.
ConvertMagnitude(q, target) ==
  IF Units(q) = target THEN Magnitude(q)
  ELSE IF Dimensionality(Units(q)) # Dimensionality(target)
  THEN Exc("DimensionalityError")
  ELSE MagDiv(MagMul(Magnitude(q), RootFactor(Units(q), 1)), RootFactor(target, 1))

\* a.to(b)
QTo(a, b) ==
  LET Converted(m) == IF IsExc(m) THEN m ELSE Quantity(m, Units(b))
  IN Converted(ConvertMagnitude(a, Units(b)))

\* An addition of the magnitudes that never looks at the units of b.
QAdd_Unchecked(a, b) == Quantity(MagAdd(Magnitude(a), Magnitude(b)), Units(a))

\* a + b
QAdd(a, b) ==
  LET Converted(m) == IF IsExc(m) THEN m ELSE Quantity(MagAdd(Magnitude(a), m), Units(a))
  IN Converted(ConvertMagnitude(b, Units(a)))

\* a - b
QSub(a, b) ==
  LET Converted(m) == IF IsExc(m) THEN m ELSE Quantity(MagSub(Magnitude(a), m), Units(a))
  IN Converted(ConvertMagnitude(b, Units(a)))

\* a * b
QMul(a, b) ==
  Quantity(MagMul(Magnitude(a), Magnitude(b)),
           [u \in UnitIds |-> MagAdd(Units(a)[u], Units(b)[u])])

\* a / b
QDiv(a, b) ==
  LET m == MagDiv(Magnitude(a), Magnitude(b))
  IN IF IsExc(m) THEN m
     ELSE Quantity(m, [u \in UnitIds |-> MagSub(Units(a)[u], Units(b)[u])])

\* a ** b
QPow(a, b) ==
  IF ~Dimensionless(b) THEN Exc("DimensionalityError")
  ELSE LET Raised(e, m) ==
             IF IsExc(m) THEN m
             ELSE Quantity(m, [u \in UnitIds |->
                                 IF Units(a)[u] = Zero THEN Zero
                                 ELSE MagMul(Units(a)[u], e)])
           ToThe(e) == Raised(e, MagPow(Magnitude(a), e))
       IN ToThe(MagMul(Magnitude(b), RootFactor(Units(b), 1)))

\* a == b
QEq(a, b) ==
  IF Units(a) = Units(b) THEN Magnitude(a) = Magnitude(b)
  ELSE /\ Dimensionality(Units(a)) = Dimensionality(Units(b))
       /\ MagMul(Magnitude(a), RootFactor(Units(a), 1))
            = MagMul(Magnitude(b), RootFactor(Units(b), 1))

(***************************************************************************)
(* The function table.                                                     *)
(***************************************************************************)
FUNCTIONS ==
  { <<"s", "i", "n">>, <<"c", "o", "s">>, <<"t", "a", "n">>,
    <<"a", "s", "i", "n">>, <<"a", "c", "o", "s">>, <<"a", "t", "a", "n">>,
    <<"s", "q", "r", "t">>, <<"l", "o", "g">>, <<"l", "o", "g", "1", "0">>,
    <<"e", "x", "p">>, <<"a", "b", "s">> }

\* The integer square root of a natural, or -1 when it is not a perfect square.
RECURSIVE ISqrtFrom(_, _)
ISqrtFrom(n, r) ==
  IF r * r = n THEN r ELSE IF r * r > n THEN -1 ELSE ISqrtFrom(n, r + 1)

\* FUNCTIONS[name](x): math.sqrt, math.log, math.log10, math.asin and
\* math.acos raise ValueError outside their domain.
ApplyFunction(name, x) ==
  LET neg == IsRat(x) /\ x[2] < 0
      big == IsRat(x) /\ Abs(x[2]) > x[3]
      sym == Sym("fn", name, x)
  IN CASE name = <<"s", "q", "r", "t">> ->
            IF neg THEN Exc("ValueError")
            ELSE IF IsRat(x) /\ ISqrtFrom(x[2], 0) >= 0 /\ ISqrtFrom(x[3], 0) >= 0
            THEN <<"rat", ISqrtFrom(x[2], 0), ISqrtFrom(x[3], 0)>>
            ELSE sym
       [] name = <<"a", "b", "s">> ->
            IF IsRat(x) THEN <<"rat", Abs(x[2]), x[3]>> ELSE sym
       [] name \in {<<"l", "o", "g">>, <<"l", "o", "g", "1", "0">>} ->
            IF neg \/ x = Zero THEN Exc("ValueError")
            ELSE IF x = One THEN Zero ELSE sym
       [] name \in {<<"a", "s", "i", "n">>, <<"a", "c", "o", "s">>} ->
            IF big THEN Exc("ValueError")
            ELSE IF x = Zero /\ name = <<"a", "s", "i", "n">> THEN Zero ELSE sym
       [] name \in {<<"s", "i", "n">>, <<"t", "a", "n">>, <<"a", "t", "a", "n">>} ->
            IF x = Zero THEN Zero ELSE sym
       [] name \in {<<"c", "o", "s">>, <<"e", "x", "p">>} ->
            IF x = Zero THEN One ELSE sym

(***************************************************************************)
(* Tokens.                                                                 *)
(***************************************************************************)
\* A table in which `to` binds tighter than every arithmetic operator.
OPERATORS_ToTightest ==
  << [op |-> <<"t", "o">>, precedence |-> 5, assoc |-> "L"],
     [op |-> <<"+">>, precedence |-> 2, assoc |-> "L"],
     [op |-> <<"-">>, precedence |-> 2, assoc |-> "L"],
     [op |-> <<"*">>, precedence |-> 3, assoc |-> "L"],
     [op |-> <<"/">>, precedence |-> 3, assoc |-> "L"],
     [op |-> <<"^">>, precedence |-> 4, assoc |-> "R"] >>

OPERATORS ==
  << [op |-> <<"t", "o">>, precedence |-> 1, assoc |-> "L"],
     [op |-> <<"+">>, precedence |-> 2, assoc |-> "L"],
     [op |-> <<"-">>, precedence |-> 2, assoc |-> "L"],
     [op |-> <<"*">>, precedence |-> 3, assoc |-> "L"],
     [op |-> <<"/">>, precedence |-> 3, assoc |-> "L"],
     [op |-> <<"^">>, precedence |-> 4, assoc |-> "R"] >>

OperatorSymbols == {OPERATORS[i].op : i \in DOMAIN OPERATORS}

OpInfo(sym) == OPERATORS[CHOOSE i \in DOMAIN OPERATORS : OPERATORS[i].op = sym]

\* sorted(OPERATORS.keys(), key=len, reverse=True): a stable sort, longest first.
RECURSIVE SortedByLen(_, _)
SortedByLen(ops, k) ==
  IF k = 0 THEN <<>>
  ELSE SelectSeq(ops, LAMBDA o : Len(o) = k) \o SortedByLen(ops, k - 1)

SORTED_OPERATORS ==
  LET keys == [i \in DOMAIN OPERATORS |-> OPERATORS[i].op]
      longest == CHOOSE k \in {Len(keys[i]) : i \in DOMAIN keys} :
                   \A i \in DOMAIN keys : Len(keys[i]) <= k
  IN SortedByLen(keys, longest)

None == <<"None">>

Number(value) == <<"Number", value>>

Variable(name, value) == <<"Variable", name, value>>

Operator(op, precedence, assoc) == <<"Operator", op, precedence, assoc>>

Function(name) == <<"Function", name>>

LeftParen == <<"LeftParen">>

RightParen == <<"RightParen">>

Unit(units) == <<"Unit", units>>

Kind(token) == token[1]

\* WORD_RE.match(s): the length of the match at the start of s, 0 for none.
WORD_RE(s) ==
  IF s = <<>> \/ Head(s) \notin WordStart THEN 0 ELSE 1 + Span(Tail(s), WordChar)

\* NUMBER_RE.match(s): (\d+(\.\d*)?|\.\d+)([eE][-+]?\d+)?
NUMBER_RE(s) ==
  LET int == Span(s, Digits)
      mant == IF int > 0
              THEN IF Len(s) > int /\ s[int + 1] = "."
                   THEN int + 1 + Span(Drop(s, int + 1), Digits)
                   ELSE int
              ELSE IF s # <<>> /\ s[1] = "." /\ Span(Tail(s), Digits) > 0
                   THEN 1 + Span(Tail(s), Digits)
                   ELSE 0
      rest == Drop(s, mant)
      sign == IF Len(rest) >= 2 /\ rest[2] \in {"-", "+"} THEN 1 ELSE 0
      edig == IF rest # <<>> /\ rest[1] \in {"e", "E"}
              THEN Span(Drop(rest, 1 + sign), Digits)
              ELSE 0
  IN IF mant = 0 THEN 0 ELSE IF edig > 0 THEN mant + 1 + sign + edig ELSE mant

\* The natural number written by a string of digits, capped above MagCap.
RECURSIVE DigitsVal(_, _)
DigitsVal(s, acc) ==
  IF s = <<>> \/ acc > MagCap THEN acc
  ELSE DigitsVal(Tail(s), 10 * acc + DigitVal(Head(s)))

\* float(text) for a text NUMBER_RE matched.
Float(text) ==
  LET epos == CHOOSE i \in 1..(Len(text) + 1) :
                /\ i = Len(text) + 1 \/ text[i] \in {"e", "E"}
                /\ \A j \in 1..(i - 1) : text[j] \notin {"e", "E"}
      mant == Take(text, epos - 1)
      dot == CHOOSE i \in 1..(Len(mant) + 1) :
               /\ i = Len(mant) + 1 \/ mant[i] = "."
               /\ \A j \in 1..(i - 1) : mant[j] # "."
      frac == Drop(mant, dot)
      digs == Take(mant, dot - 1) \o frac
      etxt == Drop(text, epos)
      eneg == etxt # <<>> /\ etxt[1] = "-"
      edig == IF etxt # <<>> /\ etxt[1] \in {"-", "+"} THEN Tail(etxt) ELSE etxt
      e10 == (IF eneg THEN -1 ELSE 1) * DigitsVal(edig, 0) - Len(frac)
      m == DigitsVal(digs, 0)
      p == IntPow(10, Abs(e10))
      sym == Sym("float", text, <<>>)
  IN IF m > MagCap \/ p > MagCap THEN sym
     ELSE IF e10 >= 0 THEN Rat(m * p, 1, sym) ELSE Rat(m, p, sym)

\* The first operator of SORTED_OPERATORS that s starts with, <<>> for none.
MatchOperator(s) ==
  IF \E i \in DOMAIN SORTED_OPERATORS : StartsWith(s, SORTED_OPERATORS[i])
  THEN SORTED_OPERATORS[CHOOSE k \in DOMAIN SORTED_OPERATORS :
                          /\ StartsWith(s, SORTED_OPERATORS[k])
                          /\ \A j \in 1..(k - 1) : ~StartsWith(s, SORTED_OPERATORS[j])]
  ELSE <<>>

\* A (token, consumed length) pair returned by _next_token.
Tok(token, length) == <<"ok", token, length>>

\* A tokenizer step that reports one character more than the operator it matched.
_next_token_OperatorOvershoots(expression, variables) ==
  LET Paren == IF expression[1] = "(" THEN Tok(LeftParen, 1)
               ELSE IF expression[1] = ")" THEN Tok(RightParen, 1)
               ELSE Exc("ParseError")
      Word(word) ==
        IF word = <<>> THEN Paren
        ELSE IF word \in FUNCTIONS THEN Tok(Function(word), Len(word))
        ELSE IF word \in DOMAIN variables
        THEN Tok(Variable(word, variables[word]), Len(word))
        ELSE IF IsUnitWord(word) THEN Tok(Unit(UnitOfWord(word)), Len(word))
        ELSE Exc("ParseError")
      Op(op_str, op_info) ==
        IF op_str = <<>> THEN Word(Take(expression, WORD_RE(expression)))
        ELSE Tok(Operator(op_str, op_info.precedence, op_info.assoc), Len(op_str) + 1)
      FirstOp(op_str) == Op(op_str, OpInfo(op_str))
      Num(end) ==
        IF end = 0 THEN FirstOp(MatchOperator(expression))
        ELSE Tok(Number(Float(Take(expression, end))), end)
  IN IF expression = <<>> THEN Exc("RuntimeError")
     ELSE IF IsSpace(expression[1]) THEN Tok(None, 1)
     ELSE Num(NUMBER_RE(expression))

_next_token(expression, variables) ==
  LET Paren == IF expression[1] = "(" THEN Tok(LeftParen, 1)
               ELSE IF expression[1] = ")" THEN Tok(RightParen, 1)
               ELSE Exc("ParseError")
      Word(word) ==
        IF word = <<>> THEN Paren
        ELSE IF word \in FUNCTIONS THEN Tok(Function(word), Len(word))
        ELSE IF word \in DOMAIN variables
        THEN Tok(Variable(word, variables[word]), Len(word))
        ELSE IF IsUnitWord(word) THEN Tok(Unit(UnitOfWord(word)), Len(word))
        ELSE Exc("ParseError")
      Op(op_str, op_info) ==
        IF op_str = <<>> THEN Word(Take(expression, WORD_RE(expression)))
        ELSE Tok(Operator(op_str, op_info.precedence, op_info.assoc), Len(op_str))
      FirstOp(op_str) == Op(op_str, OpInfo(op_str))
      Num(end) ==
        IF end = 0 THEN FirstOp(MatchOperator(expression))
        ELSE Tok(Number(Float(Take(expression, end))), end)
  IN IF expression = <<>> THEN Exc("RuntimeError")
     ELSE IF IsSpace(expression[1]) THEN Tok(None, 1)
     ELSE Num(NUMBER_RE(expression))

RECURSIVE TokenizeFrom(_, _, _, _)
TokenizeFrom(remainder, variables, tokens, used_variables) ==
  IF remainder = <<>> THEN <<"ok", tokens, used_variables>>
  ELSE LET Consume(r) ==
             IF IsExc(r) THEN r
             ELSE TokenizeFrom(
                    Drop(remainder, r[3]), variables,
                    IF r[2] # None THEN Append(tokens, r[2]) ELSE tokens,
                    IF Kind(r[2]) = "Variable" THEN used_variables \cup {r[2][2]}
                    ELSE used_variables)
       IN Consume(_next_token(remainder, variables))

\* A tokenizer that reports every variable of the mapping as used.
_tokenize_AllVariables(expression, variables) ==
  LET AllUsed(r) == IF IsExc(r) THEN r ELSE <<"ok", r[2], DOMAIN variables>>
  IN AllUsed(TokenizeFrom(expression, variables, <<>>, {}))

_tokenize(expression, variables) == TokenizeFrom(expression, variables, <<>>, {})

(***************************************************************************)
(* The RPN evaluator.                                                      *)
(***************************************************************************)
_apply_operator(op, a, b) ==
  CASE op[2] = <<"t", "o">> -> QTo(a, b)
    [] op[2] = <<"+">> -> QAdd(a, b)
    [] op[2] = <<"-">> -> QSub(a, b)
    [] op[2] = <<"*">> -> QMul(a, b)
    [] op[2] = <<"/">> -> QDiv(a, b)
    [] op[2] = <<"^">> -> QPow(a, b)
    [] OTHER -> Exc("ParseError")

Top(stack) == stack[Len(stack)]

Pop(stack) == SubSeq(stack, 1, Len(stack) - 1)

\* An evaluator step whose Unit case never attaches: it pushes a new 1.0
\* quantity of the unit whatever is on top of the stack.
EvalStep_UnitAlwaysPushes(stack, token) ==
  CASE Kind(token) = "Number" ->
         <<"ok", Append(stack, Quantity(token[2], NoUnits))>>
    [] Kind(token) = "Variable" -> <<"ok", Append(stack, token[3])>>
    [] Kind(token) = "Unit" ->
         IF stack = <<>> THEN Exc("ParseError")
         ELSE <<"ok", Append(stack, Quantity(One, token[2]))>>
    [] Kind(token) = "Operator" ->
         IF Len(stack) < 2 THEN Exc("ParseError")
         ELSE LET right == Top(stack)
                  left == Top(Pop(stack))
                  Push(r) ==
                    IF r = Exc("DimensionalityError") THEN Exc("ParseError")
                    ELSE IF IsExc(r) THEN r
                    ELSE <<"ok", Append(Pop(Pop(stack)), r)>>
              IN Push(_apply_operator(token, left, right))
    [] Kind(token) = "Function" ->
         IF stack = <<>> THEN Exc("ParseError")
         ELSE LET arg == Top(stack)
                  Push(result_mag) ==
                    IF IsExc(result_mag) THEN result_mag
                    ELSE <<"ok", Append(Pop(stack), Quantity(result_mag, NoUnits))>>
              IN IF ~Dimensionless(arg) THEN Exc("ParseError")
                 ELSE Push(ApplyFunction(token[2], Magnitude(arg)))

\* One iteration of the loop of _evaluate: the stack after token, or the
\* exception raised.
EvalStep(stack, token) ==
  CASE Kind(token) = "Number" ->
         <<"ok", Append(stack, Quantity(token[2], NoUnits))>>
    [] Kind(token) = "Variable" -> <<"ok", Append(stack, token[3])>>
    [] Kind(token) = "Unit" ->
         IF stack = <<>> THEN Exc("ParseError")
         ELSE IF Dimensionless(Top(stack))
         THEN <<"ok", Append(Pop(stack), Quantity(Magnitude(Top(stack)), token[2]))>>
         ELSE <<"ok", Append(stack, Quantity(One, token[2]))>>
    [] Kind(token) = "Operator" ->
         IF Len(stack) < 2 THEN Exc("ParseError")
         ELSE LET right == Top(stack)
                  left == Top(Pop(stack))
                  Push(r) ==
                    IF r = Exc("DimensionalityError") THEN Exc("ParseError")
                    ELSE IF IsExc(r) THEN r
                    ELSE <<"ok", Append(Pop(Pop(stack)), r)>>
              IN Push(_apply_operator(token, left, right))
    [] Kind(token) = "Function" ->
         IF stack = <<>> THEN Exc("ParseError")
         ELSE LET arg == Top(stack)
                  Push(result_mag) ==
                    IF IsExc(result_mag) THEN result_mag
                    ELSE <<"ok", Append(Pop(stack), Quantity(result_mag, NoUnits))>>
              IN IF ~Dimensionless(arg) THEN Exc("ParseError")
                 ELSE Push(ApplyFunction(token[2], Magnitude(arg)))

\* An evaluator that returns the value on top of whatever stack is left.
RECURSIVE EvalFrom_TopOfStack(_, _)
EvalFrom_TopOfStack(rpn_queue, stack) ==
  IF rpn_queue = <<>>
  THEN (IF stack = <<>> THEN Exc("ParseError") ELSE Top(stack))
  ELSE LET Continue(r) ==
             IF IsExc(r) THEN r ELSE EvalFrom_TopOfStack(Tail(rpn_queue), r[2])
       IN Continue(EvalStep(stack, Head(rpn_queue)))

RECURSIVE EvalFrom(_, _)
EvalFrom(rpn_queue, stack) ==
  IF rpn_queue = <<>>
  THEN (IF Len(stack) # 1 THEN Exc("ParseError") ELSE stack[1])
  ELSE LET Continue(r) == IF IsExc(r) THEN r ELSE EvalFrom(Tail(rpn_queue), r[2])
       IN Continue(EvalStep(stack, Head(rpn_queue)))

_evaluate(rpn_queue) == EvalFrom(rpn_queue, <<>>)

(***************************************************************************)
(* The shunting-yard converter.  A converter state is <<"ok",              *)
(* output_queue, operator_stack>>.                                         *)
(***************************************************************************)
\* A loop that treats every operator on the stack as left-associative.
RECURSIVE PopOperators_AllLeft(_, _, _)
PopOperators_AllLeft(output_queue, operator_stack, token) ==
  IF /\ operator_stack # <<>>
     /\ Kind(Top(operator_stack)) = "Operator"
     /\ token[3] <= Top(operator_stack)[3]
  THEN PopOperators_AllLeft(Append(output_queue, Top(operator_stack)), Pop(operator_stack), token)
  ELSE <<"ok", output_queue, Append(operator_stack, token)>>

\* The while loop run for an incoming Operator token.
RECURSIVE PopOperators(_, _, _)
PopOperators(output_queue, operator_stack, token) ==
  IF /\ operator_stack # <<>>
     /\ Kind(Top(operator_stack)) = "Operator"
     /\ \/ Top(operator_stack)[4] = "L" /\ token[3] <= Top(operator_stack)[3]
        \/ Top(operator_stack)[4] = "R" /\ token[3] < Top(operator_stack)[3]
  THEN PopOperators(Append(output_queue, Top(operator_stack)), Pop(operator_stack), token)
  ELSE <<"ok", output_queue, Append(operator_stack, token)>>

\* A RightParen handler that discards the Function exposed under the
\* LeftParen instead of moving it to the output queue.
RECURSIVE PopToLeftParen_DropsFunction(_, _)
PopToLeftParen_DropsFunction(output_queue, operator_stack) ==
  IF operator_stack # <<>> /\ Kind(Top(operator_stack)) # "LeftParen"
  THEN PopToLeftParen_DropsFunction(Append(output_queue, Top(operator_stack)),
                                    Pop(operator_stack))
  ELSE IF operator_stack = <<>> THEN Exc("ParseError")
  ELSE LET rest == Pop(operator_stack)
       IN IF rest # <<>> /\ Kind(Top(rest)) = "Function"
          THEN <<"ok", output_queue, Pop(rest)>>
          ELSE <<"ok", output_queue, rest>>

\* The while loop run for a RightParen, the pop of its LeftParen and of a
\* Function exposed under it.
RECURSIVE PopToLeftParen(_, _)
PopToLeftParen(output_queue, operator_stack) ==
  IF operator_stack # <<>> /\ Kind(Top(operator_stack)) # "LeftParen"
  THEN PopToLeftParen(Append(output_queue, Top(operator_stack)), Pop(operator_stack))
  ELSE IF operator_stack = <<>> THEN Exc("ParseError")
  ELSE LET rest == Pop(operator_stack)
       IN IF rest # <<>> /\ Kind(Top(rest)) = "Function"
          THEN <<"ok", Append(output_queue, Top(rest)), Pop(rest)>>
          ELSE <<"ok", output_queue, rest>>

\* One iteration of the loop over the tokens in parse.
ShuntStep(output_queue, operator_stack, token) ==
  CASE Kind(token) \in {"Number", "Unit", "Variable"} ->
         <<"ok", Append(output_queue, token), operator_stack>>
    [] Kind(token) = "Function" -> <<"ok", output_queue, Append(operator_stack, token)>>
    [] Kind(token) = "Operator" -> PopOperators(output_queue, operator_stack, token)
    [] Kind(token) = "LeftParen" -> <<"ok", output_queue, Append(operator_stack, token)>>
    [] Kind(token) = "RightParen" -> PopToLeftParen(output_queue, operator_stack)

\* A final loop that drops a parenthesis left on the stack instead of raising.
RECURSIVE Drain_DropsParens(_, _)
Drain_DropsParens(output_queue, operator_stack) ==
  IF operator_stack = <<>> THEN <<"ok", output_queue>>
  ELSE IF Kind(Top(operator_stack)) \in {"LeftParen", "RightParen"}
  THEN Drain_DropsParens(output_queue, Pop(operator_stack))
  ELSE Drain_DropsParens(Append(output_queue, Top(operator_stack)), Pop(operator_stack))

\* The final while loop of parse: the RPN queue, or the mismatched-parentheses error.
RECURSIVE Drain(_, _)
Drain(output_queue, operator_stack) ==
  IF operator_stack = <<>> THEN <<"ok", output_queue>>
  ELSE IF Kind(Top(operator_stack)) \in {"LeftParen", "RightParen"}
  THEN Exc("ParseError")
  ELSE Drain(Append(output_queue, Top(operator_stack)), Pop(operator_stack))

RECURSIVE ShuntFrom(_, _, _)
ShuntFrom(tokens, output_queue, operator_stack) ==
  IF tokens = <<>> THEN Drain(output_queue, operator_stack)
  ELSE LET Continue(r) == IF IsExc(r) THEN r ELSE ShuntFrom(Tail(tokens), r[2], r[3])
       IN Continue(ShuntStep(output_queue, operator_stack, Head(tokens)))

\* The RPN queue parse hands to _evaluate.
ShuntingYard(tokens) == ShuntFrom(tokens, <<>>, <<>>)

\* parse(expression, variables): <<"ok", quantity, used_variables>> or the
\* exception raised.
parse(expression, variables) ==
  LET Return(v, used_variables) == IF IsExc(v) THEN v ELSE <<"ok", v, used_variables>>
      OnQueue(rpn, used_variables) ==
        IF IsExc(rpn) THEN rpn ELSE Return(_evaluate(rpn[2]), used_variables)
      OnTokens(t) == IF IsExc(t) THEN t ELSE OnQueue(ShuntingYard(t[2]), t[3])
  IN OnTokens(_tokenize(expression, variables))

(***************************************************************************)
(* The note extraction engine.                                             *)
(***************************************************************************)
\* CachedLine: result is a Quantity or None; used_variable_values lists the
\* (name, value) pairs in the dict's iteration order.
CachedLine(result, used_variable_values) ==
  <<"CachedLine", result, used_variable_values>>

Result(self) == self[2]

UsedVariableValues(self) == self[3]

\* A comparison that takes every recorded variable still present as changed.
MatchFrom_NeverEqual(used, variables) ==
  IF used = <<>> THEN "hit"
  ELSE IF Head(used)[1] \notin DOMAIN variables THEN "hit_none"
  ELSE "miss"

\* A comparison that looks at the names of the recorded variables only.
RECURSIVE MatchFrom_NamesOnly(_, _)
MatchFrom_NamesOnly(used, variables) ==
  IF used = <<>> THEN "hit"
  ELSE IF Head(used)[1] \notin DOMAIN variables THEN "hit_none"
  ELSE MatchFrom_NamesOnly(Tail(used), variables)

RECURSIVE MatchFrom(_, _)
MatchFrom(used, variables) ==
  IF used = <<>> THEN "hit"
  ELSE IF Head(used)[1] \notin DOMAIN variables THEN "hit_none"
  ELSE IF ~QEq(Head(used)[2], variables[Head(used)[1]]) THEN "miss"
  ELSE MatchFrom(Tail(used), variables)

variables_match(self, variables) == MatchFrom(UsedVariableValues(self), variables)

\* token_re.match at the start of s: <<group, length>>, group 0 for no match.
\* The alternatives are tried in the order number, operator, word, parenthesis.
token_re(s) ==
  LET Group4 == IF s # <<>> /\ s[1] \in {"(", ")"} THEN <<4, 1>> ELSE <<0, 0>>
      Group3(length) == IF length > 0 THEN <<3, length>> ELSE Group4
      Group2(op_str) == IF op_str # <<>> THEN <<2, Len(op_str)>> ELSE Group3(WORD_RE(s))
      Group1(length) == IF length > 0 THEN <<1, length>> ELSE Group2(MatchOperator(s))
  IN Group1(NUMBER_RE(s))

\* A filter that keeps every word, whether or not it means anything.
RECURSIVE RelevantTokens_KeepWords(_, _)
RelevantTokens_KeepWords(s, variables) ==
  IF s = <<>> THEN <<>>
  ELSE LET Keep(m) ==
             IF m[1] = 0 THEN RelevantTokens_KeepWords(Tail(s), variables)
             ELSE <<Take(s, m[2])>> \o RelevantTokens_KeepWords(Drop(s, m[2]), variables)
       IN Keep(token_re(s))

\* The relevance filter over token_re.finditer(line).
RECURSIVE RelevantTokens(_, _)
RelevantTokens(s, variables) ==
  IF s = <<>> THEN <<>>
  ELSE LET Filter(m, word) ==
             IF m[1] = 0 THEN RelevantTokens(Tail(s), variables)
             ELSE IF m[1] = 3 /\ ~(word \in FUNCTIONS \/ word \in DOMAIN variables
                                    \/ IsUnitWord(word))
             THEN RelevantTokens(Drop(s, m[2]), variables)
             ELSE <<word>> \o RelevantTokens(Drop(s, m[2]), variables)
           Match(m) == Filter(m, Take(s, m[2]))
       IN Match(token_re(s))

\* itertools.combinations(range(lo, n + 1), k), in its lexicographic order.
RECURSIVE Combinations(_, _, _)
Combinations(lo, n, k) ==
  IF k = 0 THEN << <<>> >>
  ELSE IF n - lo + 1 < k THEN <<>>
  ELSE LET with == Combinations(lo + 1, n, k - 1)
       IN [i \in DOMAIN with |-> <<lo>> \o with[i]] \o Combinations(lo + 1, n, k)

\* The candidates of the search, longest first, each a list of token indices.
RECURSIVE CandidatesFrom(_, _)
CandidatesFrom(n, length) ==
  IF length = 0 THEN <<>>
  ELSE Combinations(1, n, length) \o CandidatesFrom(n, length - 1)

Candidates(all_tokens) == CandidatesFrom(Len(all_tokens), Len(all_tokens))

\* " ".join(subsequence)
RECURSIVE Join(_, _)
Join(all_tokens, subsequence) ==
  IF subsequence = <<>> THEN <<>>
  ELSE IF Len(subsequence) = 1 THEN all_tokens[subsequence[1]]
  ELSE all_tokens[subsequence[1]] \o <<" ">> \o Join(all_tokens, Tail(subsequence))

\* The dangling-operator heuristic on a candidate string.
Dangling(expr_string) ==
  \/ \E op \in OperatorSymbols : StartsWith(expr_string, op)
  \/ \E op \in OperatorSymbols : EndsWith(expr_string, op)

\* The except clause of the search: the exceptions a candidate may fail with.
Absorbed(e) == e[2] \in {"ParseError", "ValueError", "DimensionalityError"}

\* The search loop from candidate i on: <<"ok", result, used_variables, i>>
\* for the first success, <<"none">> when the candidates are exhausted, or the
\* exception that escapes.
RECURSIVE SearchFrom(_, _, _, _)
SearchFrom(all_tokens, variables, cands, i) ==
  IF i > Len(cands) THEN <<"none">>
  ELSE LET expr_string == Join(all_tokens, cands[i])
       IN IF Dangling(expr_string)
          THEN SearchFrom(all_tokens, variables, cands, i + 1)
          ELSE LET Try(r) ==
                     IF ~IsExc(r) THEN <<"ok", r[2], r[3], i>>
                     ELSE IF Absorbed(r)
                     THEN SearchFrom(all_tokens, variables, cands, i + 1)
                     ELSE r
               IN Try(parse(expr_string, variables))

Search(all_tokens, variables) ==
  SearchFrom(all_tokens, variables, Candidates(all_tokens), 1)

\* The orders in which a set of names can be iterated.
Orders(names) ==
  {o \in [1..Cardinality(names) -> names] : \A n \in names : \E i \in DOMAIN o : o[i] = n}

\* A parse_line that replaces the entry of a line answered HIT_NONE by an
\* entry holding None.
parse_line_DropOnHitNone(c, text, variables, order) ==
  LET Searched(found) ==
        IF IsExc(found) THEN [kind |-> "raise", ret |-> found, entry |-> None]
        ELSE IF found = <<"none">>
        THEN [kind |-> "miss", ret |-> None, entry |-> None]
        ELSE [kind |-> "miss", ret |-> found[2],
              entry |-> CachedLine(found[2],
                                   [i \in DOMAIN order |-> <<order[i], variables[order[i]]>>])]
      Lookup(all_tokens, match) ==
        IF all_tokens = <<>> THEN [kind |-> "noop", ret |-> None, entry |-> None]
        ELSE IF match = "hit"
        THEN [kind |-> "hit", ret |-> Result(c[text]), entry |-> None]
        ELSE IF match = "hit_none"
        THEN [kind |-> "hit_none", ret |-> None, entry |-> CachedLine(None, <<>>)]
        ELSE Searched(Search(all_tokens, variables))
  IN Lookup(RelevantTokens(text, variables),
            IF text \in DOMAIN c THEN variables_match(c[text], variables) ELSE "miss")

\* parse_line(line, variables) on a parser whose cache is c: what the call
\* does, as [kind, ret, entry].  kind is "noop" (no relevant token), "hit",
\* "hit_none", "miss" (the search ran to its end) or "raise"; ret is the
\* returned Quantity or None, or the exception raised; entry is the
\* CachedLine stored for the line, None when nothing is stored.  order is
\* the iteration order of the set of used variable names.
parse_line(c, text, variables, order) ==
  LET Searched(found) ==
        IF IsExc(found) THEN [kind |-> "raise", ret |-> found, entry |-> None]
        ELSE IF found = <<"none">>
        THEN [kind |-> "miss", ret |-> None, entry |-> None]
        ELSE [kind |-> "miss", ret |-> found[2],
              entry |-> CachedLine(found[2],
                                   [i \in DOMAIN order |-> <<order[i], variables[order[i]]>>])]
      Lookup(all_tokens, match) ==
        IF all_tokens = <<>> THEN [kind |-> "noop", ret |-> None, entry |-> None]
        ELSE IF match = "hit"
        THEN [kind |-> "hit", ret |-> Result(c[text]), entry |-> None]
        ELSE IF match = "hit_none"
        THEN [kind |-> "hit_none", ret |-> None, entry |-> None]
        ELSE Searched(Search(all_tokens, variables))
  IN Lookup(RelevantTokens(text, variables),
            IF text \in DOMAIN c THEN variables_match(c[text], variables) ELSE "miss")

(***************************************************************************)
(* The inputs of the model.                                                *)
(***************************************************************************)
NotParsed == <<"NotParsed">>

MaxLineWords == 3

MaxCalls == 3

\* The words a line is made of: a number, an operator and two names that
\* are variables when the caller defines them and prose when it does not.
LineWords == {<<"1">>, <<"/">>, <<"x">>, <<"y">>}

\* The words of ws separated by single spaces.
RECURSIVE Spaced(_)
Spaced(ws) ==
  IF ws = <<>> THEN <<>>
  ELSE IF Len(ws) = 1 THEN ws[1]
  ELSE ws[1] \o <<" ">> \o Spaced(Tail(ws))


VarNames == {<<"x">>, <<"y">>}

\* The values a caller gives a variable: x is 0 or 1, y is 1.
VarValues(name) ==
  IF name = <<"x">> THEN {Quantity(Zero, NoUnits), Quantity(One, NoUnits)}
  ELSE {Quantity(One, NoUnits)}

\* The variables mappings a caller passes.
Envs ==
  UNION {{v \in [names -> UNION {VarValues(n) : n \in VarNames}] :
            \A n \in names : v[n] \in VarValues(n)} : names \in SUBSET VarNames}

(***************************************************************************)
(* The state machine of one NoteParser: a caller calls parse_line on the   *)
(* line, with any variables mapping, again and again.                      *)
(***************************************************************************)
Init == /\ cache = <<>>
        /\ cache_hits = 0
        /\ cache_misses = 0
        /\ \E n \in 1..MaxLineWords : \E ws \in [1..n -> LineWords] : line = Spaced(ws)
        /\ history = <<>>
        /\ expr = <<>>
        /\ env = <<>>
        /\ outcome = NotParsed

\* The names the search records for the line, {} when the call stores nothing.
UsedVariables(c, text, variables) ==
  LET Names(r) ==
        IF r.kind = "miss" /\ r.ret # None
        THEN Search(RelevantTokens(text, variables), variables)[3]
        ELSE {}
  IN Names(parse_line(c, text, variables, <<>>))

ParseLine(variables) ==
  /\ Len(history) < MaxCalls
  /\ \E order \in Orders(UsedVariables(cache, line, variables)) :
       LET Effect(r) ==
             /\ cache' = IF r.entry = None THEN cache
                         ELSE [l \in DOMAIN cache \cup {line} |->
                                 IF l = line THEN r.entry ELSE cache[l]]
             /\ cache_hits' = IF r.kind \in {"hit", "hit_none"}
                              THEN cache_hits + 1 ELSE cache_hits
             /\ cache_misses' = IF r.kind = "miss" THEN cache_misses + 1 ELSE cache_misses
             /\ history' = Append(history,
                                  [variables |-> variables, kind |-> r.kind, ret |-> r.ret,
                                   cache |-> cache', cache_hits |-> cache_hits',
                                   cache_misses |-> cache_misses'])
       IN Effect(parse_line(cache, line, variables, order))
  /\ UNCHANGED <<line, expr, env, outcome>>

Next == \E variables \in Envs : ParseLine(variables)

Spec == Init /\ [][Next]_vars

(***************************************************************************)
(* parse as a caller uses it: one expression, parsed once.  ArithSpec      *)
(* draws the well-formed unit-free expressions of at most MaxExprTokens    *)
(* tokens, ExprSpec every string of at most MaxExprWords words.            *)
(***************************************************************************)
MaxExprTokens == 7

MaxExprWords == 5

ArithNumbers == {<<"0">>, <<"2">>, <<"3">>}

ArithOperators == {<<"+">>, <<"-">>, <<"*">>, <<"/">>, <<"^">>}

\* The well-formed expressions of exactly n tokens, as lists of words, given
\* those of fewer tokens: a number, two expressions around an operator, or an
\* expression in parentheses.
WellFormedNext(shorter, n) ==
  IF n = 1 THEN {<<w>> : w \in ArithNumbers}
  ELSE (IF n = 2 THEN {} ELSE {<<<<"(">>>> \o e \o <<<<")">>>> : e \in shorter[n - 2]})
       \cup UNION {{a \o <<op>> \o b :
                      a \in shorter[k], op \in ArithOperators, b \in shorter[n - 1 - k]}
                    : k \in 1..(n - 2)}

RECURSIVE WellFormedUpTo(_)
WellFormedUpTo(n) ==
  IF n = 0 THEN <<>>
  ELSE LET shorter == WellFormedUpTo(n - 1)
       IN Append(shorter, WellFormedNext(shorter, n))

\* The well-formed expressions of 1, 2, ... MaxExprTokens tokens.
WellFormed == WellFormedUpTo(MaxExprTokens)

ExprWords ==
  { <<"1", "g">>, <<"0">>, <<"+">>, <<"/">>, <<"t", "o">>, <<"k", "g">>, <<"(">>, <<")">> }

ArithInit == /\ cache = <<>>
             /\ cache_hits = 0
             /\ cache_misses = 0
             /\ line = <<>>
             /\ history = <<>>
             /\ \E n \in DOMAIN WellFormed : \E ws \in WellFormed[n] : expr = Spaced(ws)
             /\ env = <<>>
             /\ outcome = NotParsed

ExprInit == /\ cache = <<>>
            /\ cache_hits = 0
            /\ cache_misses = 0
            /\ line = <<>>
            /\ history = <<>>
            /\ \E n \in 1..MaxExprWords : \E ws \in [1..n -> ExprWords] : expr = Spaced(ws)
            /\ env = <<>>
            /\ outcome = NotParsed

ParseExpr ==
  /\ outcome = NotParsed
  /\ outcome' = parse(expr, env)
  /\ UNCHANGED <<cache, cache_hits, cache_misses, line, history, expr, env>>

ArithSpec == ArithInit /\ [][ParseExpr]_vars

ExprSpec == ExprInit /\ [][ParseExpr]_vars

(***************************************************************************)
(* What the claims are stated over: the i-th call of the history and the   *)
(* parser's state before it.                                               *)
(***************************************************************************)
Calls == DOMAIN history

CacheBefore(i) == IF i = 1 THEN <<>> ELSE history[i - 1].cache

HitsBefore(i) == IF i = 1 THEN 0 ELSE history[i - 1].cache_hits

MissesBefore(i) == IF i = 1 THEN 0 ELSE history[i - 1].cache_misses

Cached(i) == line \in DOMAIN CacheBefore(i)

\* The (name, value) pairs the entry of the line records before call i.
Recorded(i) == IF Cached(i) THEN UsedVariableValues(CacheBefore(i)[line]) ELSE <<>>

RecordedNames(i) == {Recorded(i)[k][1] : k \in DOMAIN Recorded(i)}

IsQuantity(v) == v[1] = "q"

\* Call i ran the search to its end and returned a Quantity.
Evaluated(i) == history[i].kind = "miss" /\ IsQuantity(history[i].ret)

\* What a parser with an empty cache does with the line under variables.
Fresh(variables) ==
  LET found == Search(RelevantTokens(line, variables), variables)
  IN IF RelevantTokens(line, variables) = <<>> \/ found = <<"none">> THEN None
     ELSE IF IsExc(found) THEN found
     ELSE found[2]

\* C1: parse_line never raises to its caller: whatever a candidate fails
\* with, the call returns a Quantity or None.
C1_NeverRaises ==
  \A i \in Calls : history[i].kind # "raise" /\ ~IsExc(history[i].ret)

\* C2: a call that follows a successful evaluation of the line, with every
\* recorded variable present at an equal value, returns the same Quantity,
\* adds one to cache_hits and leaves cache_misses alone.
C2_CacheHit ==
  \A i \in Calls :
    ( /\ i > 1
      /\ Evaluated(i - 1)
      /\ \A k \in DOMAIN Recorded(i) :
           /\ Recorded(i)[k][1] \in DOMAIN history[i].variables
           /\ QEq(Recorded(i)[k][2], history[i].variables[Recorded(i)[k][1]]) )
    => /\ history[i].ret = history[i - 1].ret
       /\ history[i].kind = "hit"
       /\ history[i].cache_hits = HitsBefore(i) + 1
       /\ history[i].cache_misses = MissesBefore(i)

C2_Witness ==
  \E i \in Calls :
    /\ i > 1
    /\ Evaluated(i - 1)
    /\ Recorded(i) # <<>>
    /\ history[i].kind = "hit"
    /\ IsQuantity(history[i].ret)

\* Variable k of the entry is present in call i with another value.
Changed(i, k) ==
  /\ Recorded(i)[k][1] \in DOMAIN history[i].variables
  /\ ~QEq(Recorded(i)[k][2], history[i].variables[Recorded(i)[k][1]])

\* The search was re-run under the variables of call i: the call is not
\* answered from the cache, what it returns or raises is what the search
\* under these variables produces, and cache_misses counts it when it
\* returns.
SearchReRun(i) ==
  /\ history[i].kind \in {"miss", "raise"}
  /\ history[i].ret = Fresh(history[i].variables)
  /\ history[i].cache_hits = HitsBefore(i)
  /\ history[i].cache_misses =
       IF history[i].kind = "miss" THEN MissesBefore(i) + 1 ELSE MissesBefore(i)

C4_HitNoneOnRemoval ==
  \A i \in Calls :
    ~(RecordedNames(i) \subseteq DOMAIN history[i].variables)
    => /\ history[i].kind \in {"hit_none", "noop"}
       /\ history[i].ret = None
       /\ history[i].cache_hits =
            IF history[i].kind = "noop" THEN HitsBefore(i) ELSE HitsBefore(i) + 1
       /\ history[i].cache_misses = MissesBefore(i)

\* C9: a search in which every candidate fails stores a CachedLine with
\* result None and no recorded variable for the line, counts one miss and
\* returns None.
C9_FailedSearchCached ==
  \A i \in Calls :
    (history[i].kind = "miss" /\ ~IsQuantity(history[i].ret))
    => /\ history[i].ret = None
       /\ history[i].cache_misses = MissesBefore(i) + 1
       /\ line \in DOMAIN history[i].cache
       /\ history[i].cache[line] = CachedLine(None, <<>>)

\* The candidates of the line under variables that are not skipped and that
\* parse evaluates, as indices into the candidate order.
Evaluating(variables) ==
  LET all_tokens == RelevantTokens(line, variables)
      cands == Candidates(all_tokens)
  IN {c \in DOMAIN cands :
        /\ ~Dangling(Join(all_tokens, cands[c]))
        /\ ~IsExc(parse(Join(all_tokens, cands[c]), variables))}

\* The value of the first candidate, in the order longest first and then
\* combination order, that is not skipped and that parse evaluates; None when
\* there is none.
FirstEvaluating(variables) ==
  LET all_tokens == RelevantTokens(line, variables)
      cands == Candidates(all_tokens)
      first == CHOOSE c \in Evaluating(variables) :
                 \A d \in Evaluating(variables) : c <= d
  IN IF Evaluating(variables) = {} THEN None
     ELSE parse(Join(all_tokens, cands[first]), variables)[2]

\* The candidate order is longest first.
LongestFirst(all_tokens) ==
  LET cands == Candidates(all_tokens)
  IN \A c, d \in DOMAIN cands : c < d => Len(cands[c]) >= Len(cands[d])

\* C8: a call that runs the search returns the value of the first candidate,
\* longest first, that is not skipped and that parse evaluates, and None only
\* when no candidate is.
C8_LongestFirst ==
  \A i \in Calls :
    history[i].kind \in {"miss", "raise"}
    => /\ history[i].ret = FirstEvaluating(history[i].variables)
       /\ LongestFirst(RelevantTokens(line, history[i].variables))

\* The names of the Variable tokens of the candidate that call i cached.
CandidateVariables(i) ==
  LET variables == history[i].variables
      all_tokens == RelevantTokens(line, variables)
      found == Search(all_tokens, variables)
      cand == Candidates(all_tokens)[found[4]]
  IN {all_tokens[cand[k]] : k \in DOMAIN cand} \cap (DOMAIN variables \ FUNCTIONS)

\* C10: the entry a call stores records exactly the distinct names of the
\* Variable tokens of the candidate that produced its result, each a key of
\* the variables of that call and mapped to its value there; a call that
\* stores nothing leaves the cache as it was.
C10_CachedLineInvariant ==
  \A i \in Calls :
    IF Evaluated(i)
    THEN LET entry == history[i].cache[line]
             used == UsedVariableValues(entry)
         IN /\ Result(entry) = history[i].ret
            /\ \A a, b \in DOMAIN used : a # b => used[a][1] # used[b][1]
            /\ {used[k][1] : k \in DOMAIN used} = CandidateVariables(i)
            /\ \A k \in DOMAIN used :
                 /\ used[k][1] \in DOMAIN history[i].variables
                 /\ used[k][2] = history[i].variables[used[k][1]]
    ELSE history[i].cache = CacheBefore(i)

C10_Witness ==
  \E i \in Calls :
    /\ Evaluated(i)
    /\ Len(UsedVariableValues(history[i].cache[line])) = 2
    /\ DOMAIN history[i].variables = VarNames
    /\ i > 1
    /\ Recorded(i) # UsedVariableValues(history[i].cache[line])

(***************************************************************************)
(* The reference evaluation of a unit-free expression, by its grammar:     *)
(*   Sum   ::= Term  { plus-or-minus Term }     grouped left to right      *)
(*   Term  ::= Power { times-or-over Power }    grouped left to right      *)
(*   Power ::= Atom  [ ^ Power ]                grouped right to left      *)
(*   Atom  ::= number |  ( Sum )                                           *)
(* A result is <<"ok", magnitude, words left>>, or the exception of the    *)
(* arithmetic, or <<"exc", "Syntax">>.                                     *)
(***************************************************************************)
\* The words of a string, split at its spaces.
RECURSIVE WordsFrom(_, _)
WordsFrom(s, word) ==
  IF s = <<>> THEN (IF word = <<>> THEN <<>> ELSE <<word>>)
  ELSE IF Head(s) = " "
  THEN (IF word = <<>> THEN <<>> ELSE <<word>>) \o WordsFrom(Tail(s), <<>>)
  ELSE WordsFrom(Tail(s), Append(word, Head(s)))

Words(s) == WordsFrom(s, <<>>)

Syntax == Exc("Syntax")

NextIs(ws, set) == ws # <<>> /\ Head(ws) \in set

RefApply(op, a, b) ==
  CASE op = <<"+">> -> MagAdd(a, b)
    [] op = <<"-">> -> MagSub(a, b)
    [] op = <<"*">> -> MagMul(a, b)
    [] op = <<"/">> -> MagDiv(a, b)
    [] op = <<"^">> -> MagPow(a, b)

RECURSIVE RefSum(_), RefSumRest(_, _), RefTerm(_), RefTermRest(_, _), RefPower(_), RefAtom(_)
RefAtom(ws) ==
  IF ws = <<>> THEN Syntax
  ELSE IF NUMBER_RE(Head(ws)) = Len(Head(ws)) THEN <<"ok", Float(Head(ws)), Tail(ws)>>
  ELSE IF Head(ws) = <<"(">>
  THEN LET r == RefSum(Tail(ws))
       IN IF IsExc(r) THEN r
          ELSE IF NextIs(r[3], {<<")">>}) THEN <<"ok", r[2], Tail(r[3])>>
          ELSE Syntax
  ELSE Syntax

RefPower(ws) ==
  LET a == RefAtom(ws)
  IN IF IsExc(a) \/ ~NextIs(a[3], {<<"^">>}) THEN a
     ELSE LET b == RefPower(Tail(a[3]))
          IN IF IsExc(b) THEN b
             ELSE LET v == MagPow(a[2], b[2])
                  IN IF IsExc(v) THEN v ELSE <<"ok", v, b[3]>>

RefTermRest(acc, ws) ==
  IF ~NextIs(ws, {<<"*">>, <<"/">>}) THEN <<"ok", acc, ws>>
  ELSE LET b == RefPower(Tail(ws))
       IN IF IsExc(b) THEN b
          ELSE LET v == RefApply(Head(ws), acc, b[2])
               IN IF IsExc(v) THEN v ELSE RefTermRest(v, b[3])

RefTerm(ws) ==
  LET a == RefPower(ws) IN IF IsExc(a) THEN a ELSE RefTermRest(a[2], a[3])

RefSumRest(acc, ws) ==
  IF ~NextIs(ws, {<<"+">>, <<"-">>}) THEN <<"ok", acc, ws>>
  ELSE LET b == RefTerm(Tail(ws))
       IN IF IsExc(b) THEN b
          ELSE LET v == RefApply(Head(ws), acc, b[2])
               IN IF IsExc(v) THEN v ELSE RefSumRest(v, b[3])

RefSum(ws) ==
  LET a == RefTerm(ws) IN IF IsExc(a) THEN a ELSE RefSumRest(a[2], a[3])

\* The reference evaluation of a whole expression.
Reference(s) ==
  LET r == RefSum(Words(s))
  IN IF IsExc(r) THEN r ELSE IF r[3] # <<>> THEN Syntax ELSE r[2]

\* C5: on a well-formed unit-free expression parse returns the value of the
\* reference evaluation: * and / bind tighter than + and -, ^ tighter than
\* * and /, + - * / group left to right, ^ right to left, and parentheses
\* override; where the arithmetic of the reference fails, so does parse.
C5_ReferenceEvaluation ==
  outcome # NotParsed
  => /\ Reference(expr) # Syntax
     /\ outcome = IF IsExc(Reference(expr)) THEN Reference(expr)
                  ELSE <<"ok", Quantity(Reference(expr), NoUnits), {}>>

\* 2 ^ 3 ^ 2 is 2 ^ (3 ^ 2) = 512.
C5_Witness ==
  /\ expr = <<"2", " ", "^", " ", "3", " ", "^", " ", "2">>
  /\ outcome = <<"ok", Quantity(<<"rat", 512, 1>>, NoUnits), {}>>

(***************************************************************************)
(* The split of an expression at its last `to` outside parentheses.        *)
(***************************************************************************)
\* The parenthesis depth after each word of ws, starting from depth d.
RECURSIVE Depths(_, _)
Depths(ws, d) ==
  IF ws = <<>> THEN <<>>
  ELSE LET e == IF Head(ws) = <<"(">> THEN d + 1
                ELSE IF Head(ws) = <<")">> THEN d - 1 ELSE d
       IN <<e>> \o Depths(Tail(ws), e)

Balanced(ws) ==
  /\ \A k \in DOMAIN ws : Depths(ws, 0)[k] >= 0
  /\ ws # <<>> => Depths(ws, 0)[Len(ws)] = 0

\* The positions of the `to` operators of ws outside every parenthesis.
TopLevelTo(ws) == {k \in DOMAIN ws : ws[k] = <<"t", "o">> /\ Depths(ws, 0)[k] = 0}

LastTo(ws) == CHOOSE k \in TopLevelTo(ws) : \A j \in TopLevelTo(ws) : j <= k

Tokens(ws) == _tokenize(Spaced(ws), env)[2]

ToToken == Operator(<<"t", "o">>, OpInfo(<<"t", "o">>).precedence, OpInfo(<<"t", "o">>).assoc)

\* C6: `to` binds loosest.  In A to B, with that `to` the last one outside
\* parentheses, everything in A (every + - * / ^ and every earlier `to`) is
\* applied before the conversion: the RPN queue is that of A, then that of
\* B, then `to`, and the expression evaluates as ( A ) to ( B ).
C6_ToBindsLoosest ==
  LET ws == Words(expr)
      k == LastTo(ws)
      A == SubSeq(ws, 1, k - 1)
      B == SubSeq(ws, k + 1, Len(ws))
  IN (outcome # NotParsed /\ Balanced(ws) /\ TopLevelTo(ws) # {})
     => /\ ShuntingYard(Tokens(ws))
             = <<"ok", ShuntingYard(Tokens(A))[2] \o ShuntingYard(Tokens(B))[2] \o <<ToToken>>>>
        /\ outcome = parse(Spaced(<<<<"(">>>> \o A \o <<<<")">>, <<"t", "o">>, <<"(">>>>
                                  \o B \o <<<<")">>>>), env)

\* 1g + 1g to kg is (1g + 1g) to kg = 0.002 kg.
C6_Witness ==
  /\ expr = <<"1", "g", " ", "+", " ", "1", "g", " ", "t", "o", " ", "k", "g">>
  /\ outcome = <<"ok", Quantity(<<"rat", 1, 500>>, UnitOfWord(<<"k", "g">>)), {}>>

\* C7: whatever parse raises is a ParseError.
C7_OnlyParseError ==
  outcome # NotParsed => (outcome[1] = "ok" \/ outcome = Exc("ParseError"))

(***************************************************************************)
(* Lines that carry nothing to evaluate.                                   *)
(***************************************************************************)
\* Every word of the line is word-shaped and is neither a function, nor a
\* variable of the mapping, nor a unit, nor begins with an operator.
NoiseOnly(variables) ==
  \A k \in DOMAIN Words(line) :
    LET w == Words(line)[k]
    IN /\ WORD_RE(w) = Len(w)
       /\ \A op \in OperatorSymbols : ~StartsWith(w, op)
       /\ w \notin FUNCTIONS
       /\ w \notin DOMAIN variables
       /\ ~IsUnitWord(w)

C12_CacheTransparency ==
  \A i \in Calls : history[i].ret = Fresh(history[i].variables)

\* C13: whenever a call is answered HIT_NONE, the search on the line under
\* the variables of the call would return None as well.
C13_HitNoneSound ==
  \A i \in Calls :
    history[i].kind = "hit_none" => Fresh(history[i].variables) = None

\* C14: variables_match returns HIT_NONE whenever a recorded name is absent
\* from the variables, whether or not other recorded variables changed and
\* whatever the order of the recorded names.
C14_HitNoneWheneverAbsent ==
  \A i \in Calls :
    (Cached(i) /\ ~(RecordedNames(i) \subseteq DOMAIN history[i].variables))
    => variables_match(CacheBefore(i)[line], history[i].variables) = "hit_none"

(***************************************************************************)
(* The counters and the lifetime of the entries.                           *)
(***************************************************************************)
\* The calls up to call i whose line has a relevant token.
RelevantCalls(i) == {j \in 1..i : RelevantTokens(line, history[j].variables) # <<>>}

\* C17: the counters never decrease, every call on a line with a relevant
\* token adds exactly 1 to exactly one of them, and their sum is the number
\* of such calls.
C17_CounterInvariant ==
  \A i \in Calls :
    /\ history[i].cache_hits >= HitsBefore(i)
    /\ history[i].cache_misses >= MissesBefore(i)
    /\ i \in RelevantCalls(i)
       => (history[i].cache_hits - HitsBefore(i))
            + (history[i].cache_misses - MissesBefore(i)) = 1
    /\ history[i].cache_hits + history[i].cache_misses = Cardinality(RelevantCalls(i))

\* Every variable the entry of the line records before call i is present in
\* call i with the recorded value.
AllRecordedEqual(i) ==
  \A k \in DOMAIN Recorded(i) :
    /\ Recorded(i)[k][1] \in DOMAIN history[i].variables
    /\ QEq(Recorded(i)[k][2], history[i].variables[Recorded(i)[k][1]])

\* C18: a call answered HIT or HIT_NONE leaves the cache as it was; after a
\* HIT_NONE, a call that supplies the recorded variables again with their
\* recorded values is a HIT that returns the cached result without a search.
C18_LookupKeepsCache ==
  \A i \in Calls :
    /\ history[i].kind \in {"hit", "hit_none"} => history[i].cache = CacheBefore(i)
    /\ (i > 1 /\ history[i - 1].kind = "hit_none" /\ AllRecordedEqual(i))
       => /\ history[i].kind = "hit"
          /\ history[i].ret = Result(CacheBefore(i - 1)[line])
          /\ history[i].cache_hits = HitsBefore(i) + 1
          /\ history[i].cache_misses = MissesBefore(i)

C18_Witness ==
  \E i \in Calls :
    /\ i > 2
    /\ Evaluated(i - 2)
    /\ history[i - 1].kind = "hit_none"
    /\ AllRecordedEqual(i)
    /\ history[i].kind = "hit"
    /\ history[i].ret = history[i - 2].ret

(***************************************************************************)
(* Names that contain an operator symbol.  A caller may name a variable    *)
(* auto (it ends with `to`), total (it begins with `to`) or g (it is also  *)
(* a unit).  NameSpec is a NoteParser called on lines that mention auto;   *)
(* NameExprSpec is parse called once on an expression over all three.      *)
(***************************************************************************)
Auto == <<"a", "u", "t", "o">>

Total == <<"t", "o", "t", "a", "l">>

Gram == <<"g">>

NameLineWords == {<<"1">>, <<"+">>, Auto}

NameLineEnvs == {<<>>, [n \in {Auto} |-> Quantity(One, NoUnits)]}

NameInit == /\ cache = <<>>
            /\ cache_hits = 0
            /\ cache_misses = 0
            /\ \E n \in 1..MaxLineWords : \E ws \in [1..n -> NameLineWords] : line = Spaced(ws)
            /\ history = <<>>
            /\ expr = <<>>
            /\ env = <<>>
            /\ outcome = NotParsed

NameNext == \E variables \in NameLineEnvs : ParseLine(variables)

NameSpec == NameInit /\ [][NameNext]_vars

NameExprWords == {<<"1">>, <<"+">>, Auto, Total, Gram}

NameValue(name) ==
  IF name = Auto THEN Quantity(One, NoUnits)
  ELSE IF name = Total THEN Quantity(<<"rat", 2, 1>>, NoUnits)
  ELSE Quantity(<<"rat", 3, 1>>, NoUnits)

NameExprEnvs == {[n \in names |-> NameValue(n)] : names \in SUBSET {Auto, Total, Gram}}

NameExprInit == /\ cache = <<>>
                /\ cache_hits = 0
                /\ cache_misses = 0
                /\ line = <<>>
                /\ history = <<>>
                /\ \E n \in 1..MaxLineWords :
                     \E ws \in [1..n -> NameExprWords] : expr = Spaced(ws)
                /\ env \in NameExprEnvs
                /\ outcome = NotParsed

NameExprSpec == NameExprInit /\ [][ParseExpr]_vars

\* C15: in a call that runs the search, a candidate is skipped only if its
\* first or its last token is an operator, and every skipped candidate is
\* one that parse rejects.
C15_DanglingSound ==
  \A i \in Calls :
    history[i].kind \in {"miss", "raise"}
    => LET variables == history[i].variables
           all_tokens == RelevantTokens(line, variables)
           cands == Candidates(all_tokens)
       IN \A c \in DOMAIN cands :
            Dangling(Join(all_tokens, cands[c]))
            => /\ \/ all_tokens[cands[c][1]] \in OperatorSymbols
                  \/ all_tokens[cands[c][Len(cands[c])]] \in OperatorSymbols
               /\ IsExc(parse(Join(all_tokens, cands[c]), variables))

\* C16: every word of the expression that is a key of the variables and not
\* a function name becomes one Variable token carrying its value and is
\* recorded as used, whatever its spelling; when every name of the
\* expression is such a key there is one token per word.
C16_VariableWords ==
  LET ws == Words(expr)
      names == {k \in DOMAIN ws : WORD_RE(ws[k]) = Len(ws[k])}
      t == _tokenize(expr, env)
  IN (outcome # NotParsed /\ \A k \in names : ws[k] \in DOMAIN env \ FUNCTIONS)
     => /\ ~IsExc(t)
        /\ Len(t[2]) = Len(ws)
        /\ \A k \in names : t[2][k] = Variable(ws[k], env[ws[k]])
        /\ t[3] = {ws[k] : k \in names}
        /\ ~IsExc(outcome) => outcome[3] = {ws[k] : k \in names}

(***************************************************************************)
(* parse on expressions with two dimensions and a function: UnitSpec draws *)
(* every string of at most MaxUnitWords words over a number, a length, a   *)
(* mass, +, -, `to` and sqrt, the empty string and a blank one.            *)
(***************************************************************************)
MaxUnitWords == 5

UnitWords ==
  { <<"1">>, <<"m">>, <<"k", "g">>, <<"+">>, <<"-">>, <<"t", "o">>, <<"s", "q", "r", "t">> }

UnitInit == /\ cache = <<>>
            /\ cache_hits = 0
            /\ cache_misses = 0
            /\ line = <<>>
            /\ history = <<>>
            /\ \/ \E n \in 0..MaxUnitWords : \E ws \in [1..n -> UnitWords] : expr = Spaced(ws)
               \/ expr = <<" ">>
            /\ env = <<>>
            /\ outcome = NotParsed

UnitSpec == UnitInit /\ [][ParseExpr]_vars

\* The RPN queue of the expression, <<>> when there is none.
Queue ==
  LET OnQueue(q) == IF IsExc(q) THEN <<>> ELSE q[2]
      OnTokens(t) == IF IsExc(t) THEN <<>> ELSE OnQueue(ShuntingYard(t[2]))
  IN OnTokens(_tokenize(expr, env))

\* The expression tokenizes and converts to an RPN queue.
Converts ==
  LET OnTokens(t) == ~IsExc(t) /\ ~IsExc(ShuntingYard(t[2]))
  IN OnTokens(_tokenize(expr, env))

\* The stack _evaluate holds before token k of the queue (after the last
\* token for k = Len + 1), or the exception raised before that.
RECURSIVE StackAt(_, _)
StackAt(rpn_queue, k) ==
  IF k = 1 THEN <<"ok", <<>>>>
  ELSE LET Step(before) ==
             IF IsExc(before) THEN before ELSE EvalStep(before[2], rpn_queue[k - 1])
       IN Step(StackAt(rpn_queue, k - 1))

IsNumberWord(w) == w # <<>> /\ NUMBER_RE(w) = Len(w)

\* C19: an Operator met with fewer than two values and a Function met with
\* none raise ParseError; a value is returned exactly when every token was
\* processed and one value remains, and it is that value; the empty and the
\* blank expression, and operands juxtaposed without an operator, raise
\* ParseError.
C19_StackDiscipline ==
  LET ws == Words(expr)
      last == StackAt(Queue, Len(Queue) + 1)
  IN (outcome # NotParsed /\ Converts)
     => /\ \A k \in DOMAIN Queue :
             LET before == StackAt(Queue, k)
             IN ~IsExc(before)
                => /\ (Kind(Queue[k]) = "Operator" /\ Len(before[2]) < 2)
                      => outcome = Exc("ParseError")
                   /\ (Kind(Queue[k]) = "Function" /\ before[2] = <<>>)
                      => outcome = Exc("ParseError")
        /\ ~IsExc(outcome) <=> (~IsExc(last) /\ Len(last[2]) = 1)
        /\ ~IsExc(outcome) => outcome[2] = last[2][1]
        /\ (~IsExc(last) /\ Len(last[2]) # 1) => outcome = Exc("ParseError")
        /\ ws = <<>> => outcome = Exc("ParseError")
        /\ ( /\ \A k \in DOMAIN ws : IsNumberWord(ws[k]) \/ IsUnitWord(ws[k])
             /\ Cardinality({k \in DOMAIN ws : IsNumberWord(ws[k])}) >= 2 )
           => outcome = Exc("ParseError")

\* 1 m 1: two operands and no operator between them.
C19_Witness ==
  /\ expr = <<"1", " ", "m", " ", "1">>
  /\ outcome = Exc("ParseError")

\* C20: +, - and `to` on operands of different dimensions, and a function
\* on an operand that is not dimensionless, make parse raise ParseError; the
\* value a function pushes is dimensionless.
C20_DimensionalSafety ==
  (outcome # NotParsed /\ Converts)
  => \A k \in DOMAIN Queue :
       LET before == StackAt(Queue, k)
           after == StackAt(Queue, k + 1)
           n == Len(before[2])
       IN ~IsExc(before)
          => /\ ( /\ Kind(Queue[k]) = "Operator"
                  /\ Queue[k][2] \in {<<"+">>, <<"-">>, <<"t", "o">>}
                  /\ n >= 2
                  /\ Dimensionality(Units(before[2][n - 1]))
                       # Dimensionality(Units(before[2][n])) )
                => outcome = Exc("ParseError")
             /\ (Kind(Queue[k]) = "Function" /\ n >= 1 /\ ~Dimensionless(before[2][n]))
                => outcome = Exc("ParseError")
             /\ (Kind(Queue[k]) = "Function" /\ ~IsExc(after))
                => Units(after[2][Len(after[2])]) = NoUnits

\* 1 m + 1 kg: a length plus a mass.
C20_Witness ==
  /\ expr = <<"1", " ", "m", " ", "+", " ", "1", " ", "k", "g">>
  /\ outcome = Exc("ParseError")

(***************************************************************************)
(* parse on numbers with units under the binding operators: AttachSpec     *)
(* draws every string of at most MaxAttachWords words over a number, a     *)
(* length, a mass, ^, / and +.                                             *)
(***************************************************************************)
MaxAttachWords == 5

AttachWords == { <<"2">>, <<"m">>, <<"k", "g">>, <<"^">>, <<"/">>, <<"+">> }

AttachInit == /\ cache = <<>>
              /\ cache_hits = 0
              /\ cache_misses = 0
              /\ line = <<>>
              /\ history = <<>>
              /\ \E n \in 1..MaxAttachWords : \E ws \in [1..n -> AttachWords] : expr = Spaced(ws)
              /\ env = <<>>
              /\ outcome = NotParsed

AttachSpec == AttachInit /\ [][ParseExpr]_vars

\* What parse returns for a list of tokens: the quantity _evaluate gives for
\* their RPN queue, or the exception raised.
Value(tokens) ==
  LET OnQueue(q) == IF IsExc(q) THEN q ELSE _evaluate(q[2])
  IN OnQueue(ShuntingYard(tokens))

\* The quantity parse returned, or the exception it raised.
Returned == IF IsExc(outcome) THEN outcome ELSE outcome[2]

\* tokens with the Number at k and the Unit after it taken as one operand
\* whose value is that number under that unit.
Bound(tokens, k) ==
  SubSeq(tokens, 1, k - 1)
    \o <<Variable(<<>>, Quantity(tokens[k][2], tokens[k + 1][2]))>>
    \o SubSeq(tokens, k + 2, Len(tokens))

\* ws with parentheses around the words k and k + 1.
Grouped(ws, k) ==
  SubSeq(ws, 1, k - 1) \o <<<<"(">>, ws[k], ws[k + 1], <<")">>>> \o SubSeq(ws, k + 2, Len(ws))

\* C21: on a Unit token an empty stack raises ParseError, a dimensionless
\* top of stack is replaced by the same magnitude under the unit with the
\* depth unchanged, and any other top has a new 1.0 quantity of the unit
\* pushed above it; so a unit written directly after a number is bound to
\* that number before any operator is applied: the expression evaluates as
\* if the pair were one operand, and as if it were in parentheses.
C21_UnitAttachment ==
  LET ws == Words(expr)
      tokens == Tokens(ws)
  IN (outcome # NotParsed /\ Converts)
     => /\ \A k \in DOMAIN Queue :
             LET before == StackAt(Queue, k)
                 after == StackAt(Queue, k + 1)
             IN (Kind(Queue[k]) = "Unit" /\ ~IsExc(before))
                => IF before[2] = <<>>
                   THEN after = Exc("ParseError") /\ outcome = Exc("ParseError")
                   ELSE IF Dimensionless(Top(before[2]))
                   THEN /\ ~IsExc(after)
                        /\ Len(after[2]) = Len(before[2])
                        /\ Pop(after[2]) = Pop(before[2])
                        /\ Top(after[2]) = Quantity(Magnitude(Top(before[2])), Queue[k][2])
                   ELSE /\ ~IsExc(after)
                        /\ after[2] = Append(before[2], Quantity(One, Queue[k][2]))
        /\ \A k \in 1..(Len(tokens) - 1) :
             (Kind(tokens[k]) = "Number" /\ Kind(tokens[k + 1]) = "Unit")
             => /\ Returned = Value(Bound(tokens, k))
                /\ outcome = parse(Spaced(Grouped(ws, k)), env)
        /\ (Len(ws) = 1 /\ IsUnitWord(ws[1])) => outcome = Exc("ParseError")

\* 2 m ^ 2 is (2 m) ^ 2, four square metres.
C21_Witness ==
  /\ expr = <<"2", " ", "m", " ", "^", " ", "2">>
  /\ outcome = <<"ok", Quantity(<<"rat", 4, 1>>,
                                [u \in UnitIds |-> IF u = "m" THEN <<"rat", 2, 1>> ELSE Zero]), {}>>

(***************************************************************************)
(* parse on expressions with parentheses and a function: GroupSpec draws   *)
(* every string of at most MaxGroupWords words over a number, +, ^, the    *)
(* two parentheses and sqrt.                                               *)
(***************************************************************************)
MaxGroupWords == 6

GroupWords == { <<"4">>, <<"+">>, <<"^">>, <<"(">>, <<")">>, <<"s", "q", "r", "t">> }

GroupInit == /\ cache = <<>>
             /\ cache_hits = 0
             /\ cache_misses = 0
             /\ line = <<>>
             /\ history = <<>>
             /\ \E n \in 1..MaxGroupWords : \E ws \in [1..n -> GroupWords] : expr = Spaced(ws)
             /\ env = <<>>
             /\ outcome = NotParsed

GroupSpec == GroupInit /\ [][ParseExpr]_vars

\* The converter state <<"ok", output_queue, operator_stack>> when the loop
\* over the tokens ends, before the final while loop, or the exception
\* raised in the loop.
RECURSIVE LoopFrom(_, _, _)
LoopFrom(tokens, output_queue, operator_stack) ==
  IF tokens = <<>> THEN <<"ok", output_queue, operator_stack>>
  ELSE LET Continue(r) == IF IsExc(r) THEN r ELSE LoopFrom(Tail(tokens), r[2], r[3])
       IN Continue(ShuntStep(output_queue, operator_stack, Head(tokens)))

\* The tokens of the expression, <<>> when it does not tokenize.
Tokenized ==
  LET OnTokens(t) == IF IsExc(t) THEN <<>> ELSE t[2]
  IN OnTokens(_tokenize(expr, env))

\* Each token with its position in the input as a last field: the token
\* objects of the list, told apart although equal.  The converter reads the
\* kind, the precedence and the associativity only, so it runs on them as on
\* the tokens.
Tagged(tokens) == [k \in DOMAIN tokens |-> Append(tokens[k], k)]

Position(tagged) == tagged[Len(tagged)]

RECURSIVE Reverse(_)
Reverse(s) == IF s = <<>> THEN <<>> ELSE Append(Reverse(Tail(s)), Head(s))

IsParen(token) == Kind(token) \in {"LeftParen", "RightParen"}

IsOperand(token) == Kind(token) \in {"Number", "Variable", "Unit"}

\* C22: when the converter accepts the tokens, the RPN queue holds no
\* parenthesis, holds every other token of the input exactly once, keeps
\* the operands in their input order, and has received everything that was
\* left on the operator stack, which ends empty.
C22_OutputInvariant ==
  LET tokens == Tagged(Tokenized)
      atEnd == LoopFrom(tokens, <<>>, <<>>)
      rpn == ShuntingYard(tokens)
      operands == SelectSeq(rpn[2], IsOperand)
  IN (outcome # NotParsed /\ Converts)
     => /\ ~IsExc(rpn) /\ ~IsExc(atEnd)
        /\ Queue = [k \in DOMAIN rpn[2] |-> Tokenized[Position(rpn[2][k])]]
        /\ \A k \in DOMAIN rpn[2] : ~IsParen(rpn[2][k])
        /\ {Position(rpn[2][k]) : k \in DOMAIN rpn[2]}
             = {k \in DOMAIN tokens : ~IsParen(tokens[k])}
        /\ \A j, k \in DOMAIN rpn[2] : Position(rpn[2][j]) = Position(rpn[2][k]) => j = k
        /\ \A j, k \in DOMAIN operands : j < k => Position(operands[j]) < Position(operands[k])
        /\ rpn[2] = atEnd[2] \o Reverse(atEnd[3])

\* sqrt ( 4 ) ^ 4: a parenthesis, a function and an operator; the queue is
\* 4 sqrt 4 ^.
C22_Witness ==
  /\ expr = <<"s", "q", "r", "t", " ", "(", " ", "4", " ", ")", " ", "^", " ", "4">>
  /\ outcome # NotParsed
  /\ Converts
  /\ Len(Queue) = 4
  /\ Kind(Queue[2]) = "Function"

\* The expression tokenizes.
Tokenizes == ~IsExc(_tokenize(expr, env))

\* C23: for an expression that tokenizes, the converter raises its
\* mismatched-parentheses ParseError, and so does parse, whenever a
\* RightParen has no open LeftParen before it or a LeftParen is still open
\* at the end, and the converter raises nothing when the parentheses are
\* balanced.
C23_ParenMatching ==
  LET ws == Words(expr)
  IN (outcome # NotParsed /\ Tokenizes)
     => /\ ~Balanced(ws) => (~Converts /\ outcome = Exc("ParseError"))
        /\ Balanced(ws) => Converts

\* ( 4 + 4: a LeftParen still open at the end of the input.
C23_Witness ==
  /\ expr = <<"(", " ", "4", " ", "+", " ", "4">>
  /\ outcome = Exc("ParseError")
  /\ ~Converts

(***************************************************************************)
(* The scope of a function: where the converter moves a Function token     *)
(* from the operator stack to the output queue.                            *)
(***************************************************************************)
\* The converter state after the first k tokens.
StateAfter(tokens, k) == LoopFrom(SubSeq(tokens, 1, k), <<>>, <<>>)

\* The input positions of the tokens on a stack.
Positions(stack) == {Position(stack[i]) : i \in DOMAIN stack}

\* The input positions of the tokens that token k takes off the operator stack.
PoppedAt(tokens, k) ==
  Positions(StateAfter(tokens, k - 1)[3]) \ Positions(StateAfter(tokens, k)[3])

\* The position of the RightParen that takes the LeftParen at q off the stack.
Closer(tokens, q) == CHOOSE k \in DOMAIN tokens : q \in PoppedAt(tokens, k)

\* The last position of the group that encloses position p: the one before
\* the RightParen that closes the group, or the end of the input.
GroupEnd(ws, p) ==
  LET depth == Depths(ws, 0)
      closers == {j \in (p + 1)..Len(ws) : depth[j] < depth[p]}
  IN IF closers = {} THEN Len(ws)
     ELSE (CHOOSE j \in closers : \A i \in closers : j <= i) - 1

\* ws with an opening parenthesis after word p and a closing one after word r.
Wrapped(ws, p, r) ==
  SubSeq(ws, 1, p) \o <<<<"(">>>> \o SubSeq(ws, p + 1, r) \o <<<<")">>>>
    \o SubSeq(ws, r + 1, Len(ws))

\* C24: a Function on the operator stack is never taken off by an incoming
\* operator; it is taken off only by the RightParen that closes the
\* parenthesis directly following it, or at the end of its group (the
\* RightParen closing the group that encloses it, or the end of the input).
\* Hence in f ( e ) op b the queue holds the queue of e, then f, and op
\* after them; and a function written without parentheses is applied to the
\* whole remainder of its group: the expression evaluates as with that
\* remainder in parentheses.
C24_FunctionScope ==
  LET ws == Words(expr)
      tokens == Tagged(Tokenized)
      rpn == ShuntingYard(tokens)[2]
      At(p) == CHOOSE i \in DOMAIN rpn : Position(rpn[i]) = p
      Untagged(s) == [i \in DOMAIN s |-> Tokenized[Position(s[i])]]
  IN (outcome # NotParsed /\ Converts)
     => \A p \in DOMAIN tokens :
          Kind(tokens[p]) = "Function"
          => /\ \A k \in DOMAIN tokens :
                  p \in PoppedAt(tokens, k)
                  => /\ Kind(tokens[k]) = "RightParen"
                     /\ \E q \in PoppedAt(tokens, k) :
                          Kind(tokens[q]) = "LeftParen" /\ (q = p + 1 \/ q < p)
             /\ (p < Len(tokens) /\ Kind(tokens[p + 1]) = "LeftParen")
                => LET j == Closer(tokens, p + 1)
                       e == ShuntingYard(SubSeq(Tokenized, p + 2, j - 1))
                   IN /\ ~IsExc(e)
                      /\ At(p) > Len(e[2])
                      /\ Untagged(SubSeq(rpn, At(p) - Len(e[2]), At(p)))
                           = e[2] \o <<Tokenized[p]>>
                      /\ (j < Len(tokens) /\ Kind(tokens[j + 1]) = "Operator")
                         => At(j + 1) > At(p)
             /\ (p = Len(tokens) \/ Kind(tokens[p + 1]) # "LeftParen")
                => outcome = parse(Spaced(Wrapped(ws, p, GroupEnd(ws, p))), env)

(***************************************************************************)
(* The tokenizer on raw text: TokSpec draws every string of at most        *)
(* MaxChars characters over a digit, the point, the exponent letter, a     *)
(* sign, the letters of `to`, a unit, a space, a parenthesis and a         *)
(* character no token starts with.  A caller parses the string as an       *)
(* expression and passes it once to a NoteParser as a line.                *)
(***************************************************************************)
MaxChars == 4

TokChars == {"1", ".", "e", "-", "t", "o", "m", " ", "(", "#"}

TokInit == /\ cache = <<>>
           /\ cache_hits = 0
           /\ cache_misses = 0
           /\ history = <<>>
           /\ \E n \in 0..MaxChars : expr \in [1..n -> TokChars]
           /\ line = expr
           /\ env = <<>>
           /\ outcome = NotParsed

ParseLineOnce == history = <<>> /\ ParseLine(<<>>)

TokNext == ParseExpr \/ ParseLineOnce

TokSpec == TokInit /\ [][TokNext]_vars

\* The remainders _tokenize passes to _next_token, in order, for at most
\* fuel calls.
RECURSIVE RemaindersFrom(_, _, _)
RemaindersFrom(remainder, variables, fuel) ==
  IF remainder = <<>> \/ fuel = 0 THEN <<>>
  ELSE LET Rest(r) ==
             IF IsExc(r) THEN <<>>
             ELSE RemaindersFrom(Drop(remainder, r[3]), variables, fuel - 1)
       IN <<remainder>> \o Rest(_next_token(remainder, variables))

\* C25: _next_token on a non-empty string raises ParseError or reports a
\* length of at least 1 and at most the length of the string; _tokenize
\* calls it on non-empty remainders only, each shorter than the one before,
\* so at most once per character; and neither parse nor parse_line ends
\* in the RuntimeError of the empty string.
C25_TokenizerProgress ==
  LET calls == RemaindersFrom(expr, env, Len(expr) + 1)
      Progress(remainder, r) ==
        \/ r = Exc("ParseError")
        \/ ~IsExc(r) /\ r[3] >= 1 /\ r[3] <= Len(remainder)
  IN /\ \A i \in 1..Len(expr) : Progress(Drop(expr, i - 1), _next_token(Drop(expr, i - 1), env))
     /\ \A i \in DOMAIN calls : calls[i] # <<>>
     /\ \A i \in 2..Len(calls) : Len(calls[i]) < Len(calls[i - 1])
     /\ Len(calls) <= Len(expr)
     /\ outcome # Exc("RuntimeError")
     /\ \A i \in Calls : history[i].ret # Exc("RuntimeError")

\* 1e-1 is one Number token of four characters; the line evaluates to 0.1.
C25_Witness ==
  /\ expr = <<"1", "e", "-", "1">>
  /\ _next_token(expr, env) = Tok(Number(<<"rat", 1, 10>>), 4)
  /\ outcome = <<"ok", Quantity(<<"rat", 1, 10>>, NoUnits), {}>>
====
